---- MODULE Spec2Model ----
(***************************************************************************)
(* Synchronator.py: reconciliation of a local tree with a Dropbox app      *)
(* folder.  The program is a Python 2 script (print_function import,       *)
(* text-mode pickle files), so dict.keys() is a list snapshot and the      *)
(* loops of execute_delta and check_local may delete while they iterate.   *)
(*                                                                         *)
(* A path is a sequence of one-character strings, so that os.path.join,   *)
(* path_display[1:], str.split, startswith and endswith are computed as    *)
(* the code computes them.  The local file system and the remote store     *)
(* are part of the state; the remote store names its objects by their      *)
(* rooted path ("/" followed by the relative path).                        *)
(***************************************************************************)
EXTENDS Integers, Sequences, FiniteSets, TLC

\* ------------------------------------------------------------------ bounds

\* the environment stops writing files once the clock has reached MaxClock
MaxClock == 4
\* entries per page of the remote listing
PageSize == 1

\* ------------------------------------------------------------------ paths

STATE_FILE == <<".", "d", "r", "o", "p", "b", "o", "x", "_", "s", "t", "a", "t", "e">>

SEP == "/"

\* the relative paths of the model: a file in a directory, a hidden file
Paths == { <<"d", "/", "a">>, <<".", "h">> }

\* str.startswith / str.endswith
startswith(s, pre) ==
    /\ Len(s) >= Len(pre)
    /\ SubSeq(s, 1, Len(pre)) = pre

endswith(s, suf) ==
    /\ Len(s) >= Len(suf)
    /\ SubSeq(s, Len(s) - Len(suf) + 1, Len(s)) = suf

\* positions of the separator in s
SepPositions(s) == { i \in 1..Len(s) : s[i] = SEP }

\* os.path.split(path): head is what precedes the last separator, tail what follows
split_head(path) ==
    IF SepPositions(path) = {} THEN <<>>
    ELSE LET k == CHOOSE i \in SepPositions(path) : \A j \in SepPositions(path) : j <= i
         IN  SubSeq(path, 1, k - 1)

split_tail(path) ==
    IF SepPositions(path) = {} THEN path
    ELSE LET k == CHOOSE i \in SepPositions(path) : \A j \in SepPositions(path) : j <= i
         IN  SubSeq(path, k + 1, Len(path))

\* str.split(os.path.sep): the list of components
RECURSIVE str_split(_)
str_split(s) ==
    IF SepPositions(s) = {} THEN << s >>
    ELSE LET k == CHOOSE i \in SepPositions(s) : \A j \in SepPositions(s) : i <= j
         IN  << SubSeq(s, 1, k - 1) >> \o str_split(SubSeq(s, k + 1, Len(s)))

\* os.path.join('/', path) for a relative path
join_root(path) == << SEP >> \o path

\* entry.path_display[1:]
strip_root(path_display) == Tail(path_display)

\* os.path.join(root, filename)[2:] of the walk, root being '.' or './<head>'
walk_root(path) ==
    IF split_head(path) = <<>> THEN << "." >>
    ELSE << ".", SEP >> \o split_head(path)

valid_dir_for_upload(dir) ==
    LET parts == str_split(dir)
    IN  \A n \in 1..Len(parts) :
          LET i == n - 1
              part == parts[n]
          IN  part # << "." >> =>
                /\ ~ startswith(part, << "." >>)
                /\ ~ (i = 1 /\ startswith(part, << "s", "i", "t", "e" >>))
                /\ ~ (i = 1 /\ part = << "t", "e", "m", "p" >>)

\* the filter without the tests on the end of the name
valid_filename_for_upload_prefix_only(filename) ==
    ~ \/ filename = STATE_FILE
      \/ startswith(filename, << "." >>)
      \/ startswith(filename, << "@" >>)

valid_filename_for_upload(filename) ==
    ~ \/ filename = STATE_FILE
      \/ startswith(filename, << "." >>)
      \/ startswith(filename, << "@" >>)
      \/ endswith(filename, << "~" >>)
      \/ endswith(filename, << ".", "p", "y", "c" >>)
      \/ endswith(filename, << ".", "p", "y", "o" >>)


\* ------------------------------------------------------------------ state

VARIABLES
    disk,               \* local file system: path -> what is at that path
    remote,             \* remote store: rooted path -> object
    clock,              \* source of modification times, revisions and content ids
    stateFile,          \* the file STATE_FILE
    local_files,        \* DropboxState.local_files of the running process
    remote_files,       \* DropboxState.remote_files of the running process
    pc,                 \* position of the process in __main__
    pending,            \* entries of the listing the server has not returned yet
    entries,            \* results.entries not yet processed
    has_more,           \* results.has_more
    remote_file_paths,  \* execute_delta's set of file paths seen
    remote_files_keys,  \* execute_delta's list of keys, the part not yet visited
    filelist,           \* check_local's filelist
    todo,               \* the part of filelist not yet passed to check_state
    oldlist,            \* check_local's oldlist, the part not yet visited
    outcome,            \* how the last run ended, "running" while it runs
    pre,                \* the world when the run started
    afterRemote,        \* the maps the save after the remote pass wrote
    pages,              \* pages of the listing received in this run
    downloaded,         \* paths download_remote completed for in this run
    uploaded,           \* paths upload completed for in this run
    madeDirs,           \* paths make_local_dir was called for in this run
    deletedLocal,       \* paths delete_local was called for in this run
    deletedRemote,      \* paths delete_remote was called for in this run
    rerun,              \* the run started right after a run that ended "ok"
    settled,            \* the run has ended and nothing has changed since
    processed,          \* entry -> times __process_remote_entries took it in this run
    up                  \* the call of upload that is followed request by request

vars == << disk, remote, clock, stateFile, local_files, remote_files, pc,
           pending, entries, has_more, remote_file_paths, remote_files_keys,
           filelist, todo, oldlist, outcome, pre, afterRemote, pages,
           downloaded, uploaded, madeDirs, deletedLocal, deletedRemote,
           rerun, settled, processed, up >>

\* everything but the upload that is followed request by request
runVars == << disk, remote, clock, stateFile, local_files, remote_files, pc,
              pending, entries, has_more, remote_file_paths, remote_files_keys,
              filelist, todo, oldlist, outcome, pre, afterRemote, pages,
              downloaded, uploaded, madeDirs, deletedLocal, deletedRemote,
              rerun, settled, processed >>

progVars == << pending, entries, has_more, remote_file_paths, remote_files_keys,
               filelist, todo, oldlist >>

logVars == << downloaded, uploaded, madeDirs, deletedLocal, deletedRemote, processed >>

\* every proper ancestor directory of a path
Ancestors(path) == { SubSeq(path, 1, k - 1) : k \in SepPositions(path) }

DiskPaths == Paths \cup UNION { Ancestors(p) : p \in Paths }

RemotePaths == { join_root(p) : p \in DiskPaths }

Nothing == [kind |-> "none", content |-> 0, mtime |-> 0]
Dir     == [kind |-> "dir",  content |-> 0, mtime |-> 0]
File(c, t) == [kind |-> "file", content |-> c, mtime |-> t]

NoObject == [kind |-> "none", rev |-> 0, content |-> 0]
Folder   == [kind |-> "folder", rev |-> 0, content |-> 0]
RemoteFile(r, c) == [kind |-> "file", rev |-> r, content |-> c]

EmptyMap == [p \in {} |-> [rev |-> 0, modified |-> 0]]

\* del d[path]
Del(d, path) == [p \in (DOMAIN d) \ {path} |-> d[p]]

\* d[path] = meta
Put(d, path, meta) == [p \in (DOMAIN d) \cup {path} |-> IF p = path THEN meta ELSE d[p]]

\* os.path.exists, os.path.isfile
exists(d, path) == path \in DOMAIN d /\ d[path].kind # "none"
isfile(d, path) == path \in DOMAIN d /\ d[path].kind = "file"
isdir(d, path)  == path = <<>> \/ (path \in DOMAIN d /\ d[path].kind = "dir")

\* os.makedirs(path): the directory and every missing ancestor; OSError, with
\* nothing made, when the path is there already or a file is on the way
makedirs(d, path) ==
    IF \/ path = << >>
       \/ exists(d, path)
       \/ \E a \in Ancestors(path) : isfile(d, a)
    THEN [raised |-> TRUE, disk |-> d]
    ELSE [raised |-> FALSE,
          disk |-> [p \in DOMAIN d |->
                      IF (p = path \/ p \in Ancestors(path)) /\ d[p].kind = "none"
                      THEN Dir ELSE d[p]]]

\* None, as upload uses it for session_id and session_cursor
None == << >>

\* no call of upload is being followed
UpIdle ==
    [pc |-> "idle", path |-> << >>, size |-> 0, data |-> [from |-> 0, to |-> 0], close |-> FALSE,
     session_id |-> None, session_cursor |-> None, offset |-> 0, calls |-> << >>]

\* DropboxState.__init__: no state file, no process started
InitProcess ==
    /\ stateFile = [valid |-> FALSE, local_files |-> EmptyMap, remote_files |-> EmptyMap]
    /\ local_files = EmptyMap
    /\ remote_files = EmptyMap
    /\ pc = "idle"
    /\ pending = {}
    /\ entries = {}
    /\ has_more = FALSE
    /\ remote_file_paths = {}
    /\ remote_files_keys = {}
    /\ filelist = {}
    /\ todo = {}
    /\ oldlist = {}
    /\ outcome = "none"
    /\ afterRemote = [saved |-> FALSE, local_files |-> EmptyMap, remote_files |-> EmptyMap]
    /\ pages = 0
    /\ downloaded = {}
    /\ uploaded = {}
    /\ madeDirs = {}
    /\ deletedLocal = {}
    /\ deletedRemote = {}
    /\ rerun = FALSE
    /\ settled = FALSE
    /\ processed = << >>

\* nothing on either side yet
InitRun ==
    /\ disk = [p \in DiskPaths |-> Nothing]
    /\ remote = [rp \in RemotePaths |-> NoObject]
    /\ clock = 0
    /\ pre = [disk |-> [p \in DiskPaths |-> Nothing],
              remote |-> [rp \in RemotePaths |-> NoObject],
              stateFile |-> [valid |-> FALSE, local_files |-> EmptyMap,
                             remote_files |-> EmptyMap]]
    /\ InitProcess

Init ==
    /\ InitRun
    /\ up = UpIdle


\* ------------------------------------------------------------------ remote client

\* dbx.files_delete(arg): removes the object named arg, raises when arg names none
files_delete(rem, arg) ==
    IF arg \in DOMAIN rem /\ rem[arg].kind # "none"
    THEN [raised |-> FALSE, remote |-> [rem EXCEPT ![arg] = NoObject]]
    ELSE [raised |-> TRUE, remote |-> rem]

\* dbx.files_upload(data, dest, overwrite): a new revision of dest holding data
files_upload(rem, content, dest, rev, net_ok) ==
    IF net_ok /\ dest \in DOMAIN rem /\ rem[dest].kind # "folder"
    THEN [raised |-> FALSE, rev |-> rev,
          remote |-> [rp \in DOMAIN rem |->
                        IF rp = dest THEN RemoteFile(rev, content)
                        ELSE IF rp \in Ancestors(dest) \ {<<>>} THEN Folder
                        ELSE rem[rp]]]
    ELSE [raised |-> TRUE, rev |-> 0, remote |-> rem]

\* dbx.files_download_to_file(download_path, src): writes the content of src to
\* download_path and returns the metadata of src
files_download_to_file(d, rem, download_path, src, now, net_ok) ==
    IF /\ net_ok
       /\ src \in DOMAIN rem /\ rem[src].kind = "file"
       /\ download_path \in DOMAIN d /\ d[download_path].kind # "dir"
       /\ isdir(d, split_head(download_path))
    THEN [raised |-> FALSE, rev |-> rem[src].rev,
          disk |-> [d EXCEPT ![download_path] = File(rem[src].content, now)]]
    ELSE [raised |-> TRUE, rev |-> 0, disk |-> d]

\* the entries dbx.files_list_folder('', True) enumerates
ListingOf(rem) ==
    { [tag |-> rem[rp].kind, path_display |-> rp, rev |-> rem[rp].rev] :
        rp \in { q \in DOMAIN rem : rem[q].kind # "none" } }

\* the pages the server may cut from what it has not returned yet
PagesOf(rest) ==
    IF rest = {} THEN { {} }
    ELSE { pg \in SUBSET rest : pg # {} /\ Cardinality(pg) <= PageSize }

\* ------------------------------------------------------------------ DropboxState

\* download_remote that records the path before the transfer
download_remote_early(d, rem, lf, rf, now, path, net_ok) ==
    LET head == split_head(path)
        made == IF ~ exists(d, head) /\ head # <<>> THEN makedirs(d, head)
                ELSE [raised |-> FALSE, disk |-> d]
        result == files_download_to_file(made.disk, rem, path, join_root(path), now, net_ok)
        meta == [rev |-> result.rev, modified |-> result.disk[path].mtime]
    IN  IF made.raised
        THEN [raised |-> TRUE, disk |-> d, local_files |-> lf, remote_files |-> rf]
        ELSE [raised |-> result.raised, disk |-> result.disk,
              local_files |-> Put(lf, path, meta), remote_files |-> Put(rf, path, meta)]

\* download_remote: the directories (an OSError of os.makedirs ends the call),
\* the transfer, then the record in both maps
download_remote(d, rem, lf, rf, now, path, net_ok) ==
    LET head == split_head(path)
        made == IF ~ exists(d, head) /\ head # <<>> THEN makedirs(d, head)
                ELSE [raised |-> FALSE, disk |-> d]
        result == files_download_to_file(made.disk, rem, path, join_root(path), now, net_ok)
        meta == [rev |-> result.rev, modified |-> result.disk[path].mtime]
    IN  IF made.raised
        THEN [raised |-> TRUE, disk |-> d, local_files |-> lf, remote_files |-> rf]
        ELSE IF result.raised
        THEN [raised |-> TRUE, disk |-> made.disk, local_files |-> lf, remote_files |-> rf]
        ELSE [raised |-> FALSE, disk |-> result.disk,
              local_files |-> Put(lf, path, meta), remote_files |-> Put(rf, path, meta)]

\* upload: the transfer, then the record in both maps
upload(d, rem, lf, rf, now, path, net_ok) ==
    LET result == files_upload(rem, d[path].content, join_root(path), now, net_ok)
        meta == [rev |-> result.rev, modified |-> d[path].mtime]
    IN  IF result.raised
        THEN [raised |-> TRUE, remote |-> rem, local_files |-> lf, remote_files |-> rf]
        ELSE [raised |-> FALSE, remote |-> result.remote,
              local_files |-> Put(lf, path, meta), remote_files |-> Put(rf, path, meta)]

\* delete_local that forgets del self.remote_files[path]
delete_local_one_map(d, lf, rf, path, rm_ok) ==
    LET d1 == IF isfile(d, path) /\ rm_ok THEN [d EXCEPT ![path] = Nothing] ELSE d
    IN  IF path \notin DOMAIN lf
        THEN [raised |-> TRUE, disk |-> d1, local_files |-> lf, remote_files |-> rf]
        ELSE [raised |-> FALSE, disk |-> d1, local_files |-> Del(lf, path), remote_files |-> rf]

\* delete_local: os.remove with every exception swallowed, then the two del
\* statements, the first KeyError ending the call
delete_local(d, lf, rf, path, rm_ok) ==
    LET d1 == IF isfile(d, path) /\ rm_ok THEN [d EXCEPT ![path] = Nothing] ELSE d
    IN  IF path \notin DOMAIN lf
        THEN [raised |-> TRUE, disk |-> d1, local_files |-> lf, remote_files |-> rf]
        ELSE IF path \notin DOMAIN rf
        THEN [raised |-> TRUE, disk |-> d1, local_files |-> Del(lf, path), remote_files |-> rf]
        ELSE [raised |-> FALSE, disk |-> d1,
              local_files |-> Del(lf, path), remote_files |-> Del(rf, path)]

\* delete_remote that forgets del self.remote_files[path]
delete_remote_one_map(rem, lf, rf, path) ==
    LET rem1 == files_delete(rem, path).remote
    IN  IF path \notin DOMAIN lf
        THEN [raised |-> TRUE, remote |-> rem1, local_files |-> lf, remote_files |-> rf]
        ELSE [raised |-> FALSE, remote |-> rem1, local_files |-> Del(lf, path),
              remote_files |-> rf]

\* delete_remote: files_delete(path) with every exception swallowed, then the two
\* del statements
delete_remote(rem, lf, rf, path) ==
    LET rem1 == files_delete(rem, path).remote
    IN  IF path \notin DOMAIN lf
        THEN [raised |-> TRUE, remote |-> rem1, local_files |-> lf, remote_files |-> rf]
        ELSE IF path \notin DOMAIN rf
        THEN [raised |-> TRUE, remote |-> rem1, local_files |-> Del(lf, path), remote_files |-> rf]
        ELSE [raised |-> FALSE, remote |-> rem1,
              local_files |-> Del(lf, path), remote_files |-> Del(rf, path)]

\* make_local_dir: os.makedirs when nothing is there; when a file is there,
\* os.remove, del local_files[path], then os.makedir, which os does not have
make_local_dir(d, lf, path) ==
    IF ~ exists(d, path)
    THEN [raised |-> makedirs(d, path).raised, disk |-> makedirs(d, path).disk,
          local_files |-> lf]
    ELSE IF isfile(d, path)
    THEN [raised |-> TRUE, disk |-> [d EXCEPT ![path] = Nothing],
          local_files |-> IF path \in DOMAIN lf THEN Del(lf, path) ELSE lf]
    ELSE [raised |-> FALSE, disk |-> d, local_files |-> lf]

\* the test without the comparison of revisions
needs_download_always(lf, path, rev) == TRUE

\* __process_remote_entries, the test that sends a file entry to download_remote
needs_download(lf, path, rev) ==
    IF path \notin DOMAIN lf THEN TRUE
    ELSE rev # lf[path].rev

\* check_state with >= for >
check_state_ge(d, lf, rf, path) ==
    IF path \notin DOMAIN rf THEN "upload"
    ELSE IF path \notin DOMAIN lf THEN "KeyError"
    ELSE IF d[path].mtime >= lf[path].modified THEN "upload"
    ELSE "skip"

\* check_state, the test that sends a path to upload ("KeyError" when the
\* path has a remote record and no local record)
check_state(d, lf, rf, path) ==
    IF path \notin DOMAIN rf THEN "upload"
    ELSE IF path \notin DOMAIN lf THEN "KeyError"
    ELSE IF d[path].mtime > lf[path].modified THEN "upload"
    ELSE "skip"

\* the test of the sweep without the paths the listing showed
sweep_deletes_unseen(lf, seen, path) == path \in DOMAIN lf

\* execute_delta, the test of the sweep that sends a key to delete_local
sweep_deletes(lf, seen, path) ==
    path \notin seen /\ path \in DOMAIN lf

\* check_local, the walk: the paths of the files that pass both filters
walk_filelist(d) ==
    { SubSeq(walk_root(p) \o << SEP >> \o split_tail(p), 3,
             Len(walk_root(p)) + 1 + Len(split_tail(p))) :
        p \in { q \in DOMAIN d : /\ isfile(d, q)
                                 /\ valid_dir_for_upload(walk_root(q))
                                 /\ valid_filename_for_upload(split_tail(q)) } }

\* load_state: the pickled state, a new DropboxState when the file does not load
load_state(f) ==
    IF f.valid
    THEN [local_files |-> f.local_files, remote_files |-> f.remote_files]
    ELSE [local_files |-> EmptyMap, remote_files |-> EmptyMap]

\* save_state: what a completed pickle.dump leaves in the file
save_state(lf, rf) ==
    [valid |-> TRUE, local_files |-> lf, remote_files |-> rf]

\* save_state: what the file holds between open(STATE_FILE, 'w') and the end
\* of pickle.dump
truncated_state == [valid |-> FALSE, local_files |-> EmptyMap, remote_files |-> EmptyMap]


\* ------------------------------------------------------------------ environment
\* Between two runs the user edits the local tree and other clients edit the
\* remote store; nothing else writes during a run.

EnvLocalWrite ==
    /\ UNCHANGED up
    /\ pc = "idle"
    /\ clock < MaxClock
    /\ \E p \in Paths :
         /\ disk[p].kind # "dir"
         /\ \A a \in Ancestors(p) : ~ isfile(disk, a)
         /\ LET head == split_head(p)
                d1 == IF head = << >> \/ exists(disk, head) THEN disk
                      ELSE makedirs(disk, head).disk
            IN  disk' = [d1 EXCEPT ![p] = File(clock + 1, clock + 1)]
    /\ clock' = clock + 1
    /\ settled' = FALSE
    /\ UNCHANGED << remote, stateFile, local_files, remote_files, pc, progVars,
                    outcome, pre, afterRemote, pages, logVars, rerun >>

EnvLocalDelete ==
    /\ UNCHANGED up
    /\ pc = "idle"
    /\ \E p \in Paths :
         /\ isfile(disk, p)
         /\ disk' = [disk EXCEPT ![p] = Nothing]
    /\ settled' = FALSE
    /\ UNCHANGED << remote, clock, stateFile, local_files, remote_files, pc, progVars,
                    outcome, pre, afterRemote, pages, logVars, rerun >>

EnvRemoteWrite ==
    /\ UNCHANGED up
    /\ pc = "idle"
    /\ clock < MaxClock
    /\ \E p \in Paths :
         /\ remote[join_root(p)].kind # "folder"
         /\ remote' = files_upload(remote, clock + 1, join_root(p), clock + 1, TRUE).remote
    /\ clock' = clock + 1
    /\ settled' = FALSE
    /\ UNCHANGED << disk, stateFile, local_files, remote_files, pc, progVars,
                    outcome, pre, afterRemote, pages, logVars, rerun >>

EnvRemoteDelete ==
    /\ UNCHANGED up
    /\ pc = "idle"
    /\ \E p \in Paths :
         /\ remote[join_root(p)].kind = "file"
         /\ remote' = files_delete(remote, join_root(p)).remote
    /\ settled' = FALSE
    /\ UNCHANGED << disk, clock, stateFile, local_files, remote_files, pc, progVars,
                    outcome, pre, afterRemote, pages, logVars, rerun >>

\* ------------------------------------------------------------------ __main__

\* an exception that reaches the top level, or the end of the script
Exit(how) ==
    /\ pc' = "idle"
    /\ outcome' = how
    /\ settled' = TRUE

\* __main__: load_state()
StartRun ==
    /\ UNCHANGED up
    /\ pc = "idle"
    /\ clock <= MaxClock
    /\ local_files' = load_state(stateFile).local_files
    /\ remote_files' = load_state(stateFile).remote_files
    /\ pc' = "list"
    /\ outcome' = "running"
    /\ pre' = [disk |-> disk, remote |-> remote, stateFile |-> stateFile]
    /\ afterRemote' = [saved |-> FALSE, local_files |-> EmptyMap, remote_files |-> EmptyMap]
    /\ pages' = 0
    /\ pending' = {} /\ entries' = {} /\ has_more' = FALSE
    /\ remote_file_paths' = {} /\ remote_files_keys' = {}
    /\ filelist' = {} /\ todo' = {} /\ oldlist' = {}
    /\ downloaded' = {} /\ uploaded' = {} /\ madeDirs' = {}
    /\ deletedLocal' = {} /\ deletedRemote' = {}
    /\ processed' = << >>
    /\ rerun' = (settled /\ outcome = "ok")
    /\ settled' = FALSE
    /\ UNCHANGED << disk, remote, clock, stateFile >>

\* execute_delta: results = dbx.files_list_folder('', True)
ListFolder ==
    /\ UNCHANGED up
    /\ pc = "list"
    /\ \E net_ok \in BOOLEAN :
         IF net_ok
         THEN \E pg \in PagesOf(ListingOf(remote)) :
                /\ entries' = pg
                /\ pending' = ListingOf(remote) \ pg
                /\ has_more' = (ListingOf(remote) \ pg # {})
                /\ pages' = pages + 1
                /\ pc' = "entries"
                /\ UNCHANGED << outcome, settled >>
         ELSE /\ Exit("ListingError")
              /\ UNCHANGED << entries, pending, has_more, pages >>
    /\ UNCHANGED << disk, remote, clock, stateFile, local_files, remote_files,
                    remote_file_paths, remote_files_keys, filelist, todo, oldlist,
                    pre, afterRemote, logVars, rerun >>

\* execute_delta: results = dbx.files_list_folder_continue(cursor)
ListFolderContinue ==
    /\ UNCHANGED up
    /\ pc = "entries"
    /\ entries = {}
    /\ has_more
    /\ \E net_ok \in BOOLEAN :
         IF net_ok
         THEN \E pg \in PagesOf(pending) :
                /\ entries' = pg
                /\ pending' = pending \ pg
                /\ has_more' = (pending \ pg # {})
                /\ pages' = pages + 1
                /\ UNCHANGED << pc, outcome, settled >>
         ELSE /\ Exit("ListingError")
              /\ UNCHANGED << entries, pending, has_more, pages >>
    /\ UNCHANGED << disk, remote, clock, stateFile, local_files, remote_files,
                    remote_file_paths, remote_files_keys, filelist, todo, oldlist,
                    pre, afterRemote, logVars, rerun >>

\* __process_remote_entries: one entry of the page
ProcessEntry ==
    /\ UNCHANGED up
    /\ pc = "entries"
    /\ \E entry \in entries :
         LET path == strip_root(entry.path_display)
         IN  /\ entries' = entries \ {entry}
             /\ processed' = [e \in DOMAIN processed \cup {entry} |->
                                IF e \in DOMAIN processed
                                THEN processed[e] + (IF e = entry THEN 1 ELSE 0)
                                ELSE 1]
             /\ IF entry.tag = "file" /\ needs_download(local_files, path, entry.rev)
                THEN \E net_ok \in BOOLEAN :
                       LET r == download_remote(disk, remote, local_files, remote_files,
                                                clock + 1, path, net_ok)
                       IN  /\ disk' = r.disk
                           /\ local_files' = r.local_files
                           /\ remote_files' = r.remote_files
                           /\ UNCHANGED madeDirs
                           /\ IF r.raised
                              THEN /\ Exit("DownloadError")
                                   /\ UNCHANGED << clock, remote_file_paths, downloaded >>
                              ELSE /\ clock' = clock + 1
                                   /\ remote_file_paths' = remote_file_paths \cup {path}
                                   /\ downloaded' = downloaded \cup {path}
                                   /\ UNCHANGED << pc, outcome, settled >>
                ELSE IF entry.tag = "file"
                THEN /\ remote_file_paths' = remote_file_paths \cup {path}
                     /\ UNCHANGED << disk, clock, local_files, remote_files, pc, outcome,
                                     settled, downloaded, madeDirs >>
                ELSE IF ~ exists(disk, path)
                THEN LET r == make_local_dir(disk, local_files, path)
                     IN  /\ disk' = r.disk
                         /\ local_files' = r.local_files
                         /\ madeDirs' = madeDirs \cup {path}
                         /\ IF r.raised
                            THEN Exit("Error")
                            ELSE UNCHANGED << pc, outcome, settled >>
                         /\ UNCHANGED << clock, remote_files, remote_file_paths, downloaded >>
                ELSE UNCHANGED << disk, clock, local_files, remote_files, pc, outcome,
                                  settled, remote_file_paths, downloaded, madeDirs >>
    /\ UNCHANGED << remote, stateFile, pending, has_more, remote_files_keys, filelist,
                    todo, oldlist, pre, afterRemote, pages, uploaded, deletedLocal,
                    deletedRemote, rerun >>

\* execute_delta: the listing is exhausted, remote_files_keys = self.remote_files.keys()
BeginSweep ==
    /\ UNCHANGED up
    /\ pc = "entries"
    /\ entries = {}
    /\ ~ has_more
    /\ remote_files_keys' = DOMAIN remote_files
    /\ pc' = "sweep"
    /\ UNCHANGED << disk, remote, clock, stateFile, local_files, remote_files,
                    pending, entries, has_more, remote_file_paths, filelist, todo,
                    oldlist, outcome, pre, afterRemote, pages, logVars, rerun, settled >>

\* execute_delta: one key of the sweep
SweepStep ==
    /\ UNCHANGED up
    /\ pc = "sweep"
    /\ \E path \in remote_files_keys :
         /\ remote_files_keys' = remote_files_keys \ {path}
         /\ IF sweep_deletes(local_files, remote_file_paths, path)
            THEN \E rm_ok \in BOOLEAN :
                   LET r == delete_local(disk, local_files, remote_files, path, rm_ok)
                   IN  /\ disk' = r.disk
                       /\ local_files' = r.local_files
                       /\ remote_files' = r.remote_files
                       /\ deletedLocal' = deletedLocal \cup {path}
                       /\ IF r.raised
                          THEN Exit("Error")
                          ELSE UNCHANGED << pc, outcome, settled >>
            ELSE UNCHANGED << disk, local_files, remote_files, deletedLocal, pc,
                              outcome, settled >>
    /\ UNCHANGED << remote, clock, stateFile, pending, entries, has_more,
                    remote_file_paths, filelist, todo, oldlist, pre, afterRemote, pages,
                    downloaded, uploaded, madeDirs, deletedRemote, rerun, processed >>

\* __main__: save_state(state) after check_remote
SaveAfterRemote ==
    /\ UNCHANGED up
    /\ pc = "sweep"
    /\ remote_files_keys = {}
    /\ stateFile' = save_state(local_files, remote_files)
    /\ afterRemote' = [saved |-> TRUE, local_files |-> local_files,
                       remote_files |-> remote_files]
    /\ pc' = "walk"
    /\ UNCHANGED << disk, remote, clock, local_files, remote_files, progVars,
                    outcome, pre, pages, logVars, rerun, settled >>

\* check_local: the walk that builds filelist
Walk ==
    /\ UNCHANGED up
    /\ pc = "walk"
    /\ filelist' = walk_filelist(disk)
    /\ todo' = walk_filelist(disk)
    /\ pc' = "check"
    /\ UNCHANGED << disk, remote, clock, stateFile, local_files, remote_files,
                    pending, entries, has_more, remote_file_paths, remote_files_keys,
                    oldlist, outcome, pre, afterRemote, pages, logVars, rerun, settled >>

\* check_local: state.check_state(dbx, path) for one path of filelist
CheckState ==
    /\ UNCHANGED up
    /\ pc = "check"
    /\ \E path \in todo :
         /\ todo' = todo \ {path}
         /\ LET what == check_state(disk, local_files, remote_files, path)
            IN  IF what = "upload"
                THEN \E net_ok \in BOOLEAN :
                       LET r == upload(disk, remote, local_files, remote_files,
                                       clock + 1, path, net_ok)
                       IN  /\ remote' = r.remote
                           /\ local_files' = r.local_files
                           /\ remote_files' = r.remote_files
                           /\ IF r.raised
                              THEN /\ Exit("UploadError")
                                   /\ UNCHANGED << clock, uploaded >>
                              ELSE /\ clock' = clock + 1
                                   /\ uploaded' = uploaded \cup {path}
                                   /\ UNCHANGED << pc, outcome, settled >>
                ELSE /\ IF what = "KeyError"
                        THEN Exit("Error")
                        ELSE UNCHANGED << pc, outcome, settled >>
                     /\ UNCHANGED << remote, clock, local_files, remote_files, uploaded >>
    /\ UNCHANGED << disk, stateFile, pending, entries, has_more, remote_file_paths,
                    remote_files_keys, filelist, oldlist, pre, afterRemote, pages,
                    downloaded, madeDirs, deletedLocal, deletedRemote, rerun, processed >>

\* check_local: oldlist = state.local_files.keys()
BeginOld ==
    /\ UNCHANGED up
    /\ pc = "check"
    /\ todo = {}
    /\ oldlist' = DOMAIN local_files
    /\ pc' = "old"
    /\ UNCHANGED << disk, remote, clock, stateFile, local_files, remote_files,
                    pending, entries, has_more, remote_file_paths, remote_files_keys,
                    filelist, todo, outcome, pre, afterRemote, pages, logVars, rerun,
                    settled >>

\* check_local: one file of oldlist
OldStep ==
    /\ UNCHANGED up
    /\ pc = "old"
    /\ \E file \in oldlist :
         /\ oldlist' = oldlist \ {file}
         /\ IF file \notin filelist
            THEN LET r == delete_remote(remote, local_files, remote_files, file)
                 IN  /\ remote' = r.remote
                     /\ local_files' = r.local_files
                     /\ remote_files' = r.remote_files
                     /\ deletedRemote' = deletedRemote \cup {file}
                     /\ IF r.raised
                        THEN Exit("Error")
                        ELSE UNCHANGED << pc, outcome, settled >>
            ELSE UNCHANGED << remote, local_files, remote_files, deletedRemote, pc,
                              outcome, settled >>
    /\ UNCHANGED << disk, clock, stateFile, pending, entries, has_more,
                    remote_file_paths, remote_files_keys, filelist, todo, pre,
                    afterRemote, pages, downloaded, uploaded, madeDirs, deletedLocal,
                    rerun, processed >>

\* __main__: save_state(state) after check_local, 'Sync Complete'
SaveAfterLocal ==
    /\ UNCHANGED up
    /\ pc = "old"
    /\ oldlist = {}
    /\ stateFile' = save_state(local_files, remote_files)
    /\ Exit("ok")
    /\ UNCHANGED << disk, remote, clock, local_files, remote_files, progVars,
                    pre, afterRemote, pages, logVars, rerun >>

\* the process is killed inside save_state, after open(STATE_FILE, 'w') and
\* before pickle.dump has written the whole state
CrashInSave ==
    /\ UNCHANGED up
    /\ \/ pc = "sweep" /\ remote_files_keys = {}
       \/ pc = "old" /\ oldlist = {}
    /\ stateFile' = truncated_state
    /\ Exit("crash")
    /\ UNCHANGED << disk, remote, clock, local_files, remote_files, progVars,
                    pre, afterRemote, pages, logVars, rerun >>

Environment ==
    \/ EnvLocalWrite
    \/ EnvLocalDelete
    \/ EnvRemoteWrite
    \/ EnvRemoteDelete

Run ==
    \/ StartRun
    \/ ListFolder
    \/ ListFolderContinue
    \/ ProcessEntry
    \/ BeginSweep
    \/ SweepStep
    \/ SaveAfterRemote
    \/ Walk
    \/ CheckState
    \/ BeginOld
    \/ OldStep
    \/ SaveAfterLocal

Next == Environment \/ Run

Spec == Init /\ [][Next]_vars

NextCrash == Next \/ CrashInSave

SpecCrash == Init /\ [][NextCrash]_vars

\* the runs against a remote store that other clients edit, the local tree
\* being touched by the runs alone; a started script keeps running, nothing
\* suspends the process between two statements
NextRemote == EnvRemoteWrite \/ EnvRemoteDelete \/ Run

SpecRemoteFair == Init /\ [][NextRemote]_vars /\ WF_vars(Run)

\* ---------------------------------------------------------------------------
\* The first runs over a local tree and a remote store that already hold
\* something: a file the filters of check_local exclude or let through or a
\* file where the remote store has a folder, alone or next to a plain file,
\* all written at time 1; the store is empty or holds the files of Paths.

\* a file that passes every filter
PlainFile == << "x" >>

\* a file where the remote store may have a folder
ConflictPath == << "d" >>

\* file names and directories that each filter of check_local tests; the
\* file with the name of the state file lies in a directory, the state file of
\* the process itself being the variable stateFile
TreeFiles ==
    { << ".", "h" >>,
      << "@", "x" >>,
      << "x", "~" >>,
      << "x", ".", "p", "y", "c" >>,
      << "x", ".", "p", "y", "o" >>,
      << "s", "/" >> \o STATE_FILE,
      << ".", "g", "/", "x" >>,
      << "t", "e", "m", "p", "/", "x" >>,
      << "s", "i", "t", "e", "x", "/", "x" >>,
      << "t", "e", "m", "p", "/", "s", "/", "x" >>,
      << "s", "/", ".", "g", "/", "x" >>,
      << "s", "/", "t", "e", "m", "p", "/", "x" >>,
      PlainFile,
      ConflictPath }

TreeDiskPaths ==
    LET files == TreeFiles \cup Paths
    IN  files \cup UNION { Ancestors(p) : p \in files }

\* the local tree that holds the files T and the directories they lie in
TreeOf(T) ==
    [p \in TreeDiskPaths |->
        IF p \in T THEN File(1, 1)
        ELSE IF \E f \in T : p \in Ancestors(f) THEN Dir
        ELSE Nothing]

\* the remote store that holds the files R and the folders they lie in, and
\* the folder ConflictPath when asked
StoreOf(R, withFolder) ==
    [rp \in { join_root(p) : p \in TreeDiskPaths } |->
        IF strip_root(rp) \in R THEN RemoteFile(1, 1)
        ELSE IF \E f \in R : strip_root(rp) \in Ancestors(f) THEN Folder
        ELSE IF withFolder /\ strip_root(rp) = ConflictPath THEN Folder
        ELSE NoObject]

InitTree ==
    /\ \E T \in { {f} : f \in TreeFiles } \cup { {f, PlainFile} : f \in TreeFiles },
          R \in { {}, Paths },
          withFolder \in BOOLEAN :
         /\ disk = TreeOf(T)
         /\ remote = StoreOf(R, withFolder)
    /\ clock = 2
    /\ pre = [disk |-> disk, remote |-> remote,
              stateFile |-> [valid |-> FALSE, local_files |-> EmptyMap,
                             remote_files |-> EmptyMap]]
    /\ InitProcess
    /\ up = UpIdle

\* between two runs the user saves a file of the tree again
TreeTouch ==
    /\ UNCHANGED up
    /\ pc = "idle"
    /\ clock < MaxClock
    /\ \E p \in DOMAIN disk :
         /\ isfile(disk, p)
         /\ disk' = [disk EXCEPT ![p] = File(clock + 1, clock + 1)]
    /\ clock' = clock + 1
    /\ settled' = FALSE
    /\ UNCHANGED << remote, stateFile, local_files, remote_files, pc, progVars,
                    outcome, pre, afterRemote, pages, logVars, rerun >>

NextTree == TreeTouch \/ Run

SpecTree == InitTree /\ [][NextTree]_vars

\* ---------------------------------------------------------------------------
\* upload, request by request.  A file's bytes are numbered from 0; a piece of
\* data is the interval [from, to) of the bytes it holds.

\* the size above which upload opens a session
THRESHOLD == 140000000

\* the number of bytes upload reads at a time inside a session
CHUNK == 10000000

\* the largest file followed is MaxExtraChunks chunks and a byte above THRESHOLD
MaxExtraChunks == 2

\* the sizes os.path.getsize may return
Sizes ==
    {0, 1, CHUNK - 1, CHUNK, CHUNK + 1}
      \cup { THRESHOLD + k * CHUNK + d : k \in 0 .. MaxExtraChunks, d \in {-1, 0, 1} }

\* len(data)
len(data) == data.to - data.from

\* local_fr.read(n) with the file position at pos
read(size, pos, n) == [from |-> pos, to |-> IF pos + n < size THEN pos + n ELSE size]

\* local_fr.read()
read_all(size) == [from |-> 0, to |-> size]

\* the session id files_upload_session_start returns
result_session_id == << "s" >>

\* UploadSessionCursor(session_id, offset)
UploadSessionCursor(session_id, offset) == << session_id, offset >>

is_close_le(data) == len(data) <= CHUNK

\* close = len(data) < 10000000
is_close(data) == len(data) < CHUNK

next_offset_set(offset, data) == len(data)

\* offset += len(data)
next_offset(offset, data) == offset + len(data)

\* a request as the remote store receives it
Request(op, data, cursor, close) ==
    [op |-> op, data |-> data, cursor |-> cursor, close |-> close]

\* the request that commits has been served: the store holds the file at
\* os.path.join('/', path) and upload records the rev and the modification
\* time in both maps
UploadReturn ==
    LET r == upload(disk, remote, local_files, remote_files, clock + 1, up.path, TRUE)
    IN  /\ remote' = r.remote
        /\ local_files' = r.local_files
        /\ remote_files' = r.remote_files
        /\ clock' = clock + 1
        /\ uploaded' = uploaded \cup {up.path}
        /\ UNCHANGED << disk, stateFile, pc, progVars, outcome, pre, afterRemote, pages,
                        downloaded, madeDirs, deletedLocal, deletedRemote, processed,
                        rerun, settled >>

\* a request raises: upload ends there, nothing is recorded
UploadRaises ==
    /\ up' = [up EXCEPT !.pc = "raised"]
    /\ UNCHANGED runVars

\* upload up to the loop: getsize, the branch on the size, the first read;
\* at or below the threshold the whole file goes in one files_upload and
\* upload returns
UploadBegin ==
    /\ up.pc = "start"
    /\ IF up.size > THRESHOLD
         THEN LET data == read(up.size, 0, CHUNK) IN
              /\ up' = [up EXCEPT !.pc = "loop", !.data = data,
                                  !.close = is_close(data),
                                  !.session_id = None, !.session_cursor = None,
                                  !.offset = 0]
              /\ UNCHANGED runVars
         ELSE \E net_ok \in BOOLEAN :
                IF net_ok
                THEN LET data == read_all(up.size) IN
                     /\ up' = [up EXCEPT !.pc = "done", !.data = data,
                                         !.calls = << Request("files_upload", data,
                                                              None, FALSE) >>]
                     /\ UploadReturn
                ELSE UploadRaises

\* one turn of "while not close"
SessionStep ==
    /\ up.pc = "loop"
    /\ ~ up.close
    /\ \E net_ok \in BOOLEAN :
         IF net_ok
         THEN LET sent == IF up.session_id = None
                            THEN Request("files_upload_session_start", up.data, None,
                                         up.close)
                            ELSE Request("files_upload_session_append_v2", up.data,
                                         up.session_cursor, up.close)
                  session_id == IF up.session_id = None THEN result_session_id
                                                        ELSE up.session_id
                  offset == next_offset(up.offset, up.data)
                  data == read(up.size, up.data.to, CHUNK)
              IN  /\ up' = [up EXCEPT !.calls = Append(up.calls, sent),
                                      !.session_id = session_id,
                                      !.offset = offset,
                                      !.session_cursor =
                                          UploadSessionCursor(session_id, offset),
                                      !.data = data,
                                      !.close = is_close(data)]
                  /\ UNCHANGED runVars
         ELSE UploadRaises

\* after the loop: files_upload_session_finish with the data last read, then
\* upload returns
SessionFinish ==
    /\ up.pc = "loop"
    /\ up.close
    /\ \E net_ok \in BOOLEAN :
         IF net_ok
         THEN /\ up' = [up EXCEPT !.pc = "done",
                                  !.calls = Append(up.calls,
                                                   Request("files_upload_session_finish",
                                                           up.data, up.session_cursor,
                                                           FALSE))]
              /\ UploadReturn
         ELSE UploadRaises

\* the file upload is called for
UploadPath == << "d", "/", "a" >>

\* a call of upload on a file of any of the sizes, written at time 1, the
\* store and the maps being empty
InitUpload ==
    /\ disk = [p \in DiskPaths |->
                 IF p = UploadPath THEN File(1, 1)
                 ELSE IF p \in Ancestors(UploadPath) THEN Dir
                 ELSE Nothing]
    /\ remote = [rp \in RemotePaths |-> NoObject]
    /\ clock = 1
    /\ pre = [disk |-> disk, remote |-> remote,
              stateFile |-> [valid |-> FALSE, local_files |-> EmptyMap,
                             remote_files |-> EmptyMap]]
    /\ InitProcess
    /\ up \in { [UpIdle EXCEPT !.pc = "start", !.path = UploadPath, !.size = n] :
                 n \in Sizes }

NextUpload == UploadBegin \/ SessionStep \/ SessionFinish

SpecUpload == InitUpload /\ [][NextUpload]_vars


\* ------------------------------------------------------------------ properties

\* the run has ended without error and nothing has touched the two trees since
Completed == pc = "idle" /\ outcome = "ok" /\ settled

\* the state the run loaded
Loaded == load_state(pre.stateFile)

\* the process is in check_local or past it
InLocalPass == pc \in {"check", "old"} \/ Completed

\* C1: a run started right after a run that completed without error, with no
\* change to the local tree or the remote store in between, uploads nothing and
\* downloads nothing.
C1_Idempotence ==
    rerun => (uploaded = {} /\ downloaded = {})

\* C2: a path that is a file on local disk and on the remote store when a run
\* starts has, when the run has completed without error, a record in both maps
\* and the two records are equal.
C2_Convergence ==
    Completed =>
      \A p \in Paths :
        (isfile(pre.disk, p) /\ pre.remote[join_root(p)].kind = "file") =>
          /\ p \in DOMAIN local_files
          /\ p \in DOMAIN remote_files
          /\ local_files[p] = remote_files[p]

\* the case of C3: the loaded state records p, the remote revision differs from
\* the recorded one and the local modification time is later than the recorded one
BothChanged(p) ==
    /\ p \in DOMAIN Loaded.local_files
    /\ pre.remote[join_root(p)].kind = "file"
    /\ pre.remote[join_root(p)].rev # Loaded.local_files[p].rev
    /\ isfile(pre.disk, p)
    /\ pre.disk[p].mtime > Loaded.local_files[p].modified

\* C3: when both sides of a path changed since its last sync, the path has been
\* downloaded when the local pass starts, the local content is then the remote
\* content, and the local pass does not upload the path.
C3_RemoteWins ==
    \A p \in Paths :
      (BothChanged(p) /\ InLocalPass /\ outcome \in {"running", "ok"}) =>
        /\ p \in downloaded
        /\ p \notin uploaded
        /\ isfile(disk, p)
        /\ disk[p].content = pre.remote[join_root(p)].content

C3_Witness ==
    /\ Completed
    /\ \E p \in Paths : BothChanged(p) /\ p \in downloaded


\* the case of C4: the loaded state records p and no file is at p on local disk
LocallyRemoved(p) ==
    /\ p \in DOMAIN Loaded.local_files
    /\ ~ isfile(pre.disk, p)

\* the remote store still holds p at the revision the loaded state records
RemoteUnchanged(p) ==
    /\ pre.remote[join_root(p)].kind = "file"
    /\ pre.remote[join_root(p)].rev = Loaded.local_files[p].rev

\* what C4 promises for p when the run has ended
LocalRemovalPropagated(p) ==
    /\ p \in deletedRemote
    /\ p \notin DOMAIN local_files
    /\ p \notin DOMAIN remote_files
    /\ ~ isfile(disk, p)

\* C4 as stated: a recorded path removed from local disk between two runs gets a
\* remote delete in the next run and is, when that run ends, in neither map and
\* not on local disk.
C4_LocalRemoval ==
    Completed => \A p \in Paths : LocallyRemoved(p) => LocalRemovalPropagated(p)

\* C4 as amended: the same, for a path whose remote copy still has the recorded
\* revision when the run starts.
C4_LocalRemovalRemoteUnchanged ==
    Completed =>
      \A p \in Paths : (LocallyRemoved(p) /\ RemoteUnchanged(p)) => LocalRemovalPropagated(p)

C4_Witness ==
    /\ Completed
    /\ \E p \in Paths : LocallyRemoved(p) /\ RemoteUnchanged(p) /\ p \in deletedRemote

\* the case of C5: the loaded state records p in both maps and the remote store
\* holds no file at p
RemotelyRemoved(p) ==
    /\ p \in DOMAIN Loaded.local_files
    /\ p \in DOMAIN Loaded.remote_files
    /\ pre.remote[join_root(p)].kind # "file"

\* C5: a path recorded in both maps and removed from the remote store between two
\* runs has, when the remote pass of the next run has ended, been passed to
\* delete_local, is no file on local disk and is in neither map, and the local
\* pass does not upload it.
C5_RemoteRemoval ==
    \A p \in Paths :
      (RemotelyRemoved(p) /\ outcome \in {"running", "ok"}) =>
        /\ (pc = "walk" => /\ p \in deletedLocal
                           /\ ~ isfile(disk, p)
                           /\ p \notin DOMAIN local_files
                           /\ p \notin DOMAIN remote_files)
        /\ p \notin uploaded

\* C6: a step that calls delete_local(p) or delete_remote(p) leaves p in both maps
\* or in neither.
C6_DeleteBothMaps ==
    [][ \A p \in Paths :
          (p \in (deletedLocal' \ deletedLocal) \/ p \in (deletedRemote' \ deletedRemote))
            => ((p \in DOMAIN local_files') <=> (p \in DOMAIN remote_files')) ]_vars

C6_Witness ==
    /\ \E p \in deletedLocal : p \notin DOMAIN local_files /\ p \notin DOMAIN remote_files
    /\ \E p \in deletedRemote : p \notin DOMAIN local_files /\ p \notin DOMAIN remote_files

\* the content versions held by the files of the local tree and of the remote store
Contents(d, rem) ==
    { d[p].content : p \in { q \in DOMAIN d : d[q].kind = "file" } }
      \cup { rem[rp].content : rp \in { q \in DOMAIN rem : rem[q].kind = "file" } }

\* C7: when a run that started without a loadable state file has completed, every
\* content version that was on local disk or on the remote store when it started
\* is still on one of the two.
C7_StateLossKeepsData ==
    (Completed /\ ~ pre.stateFile.valid) =>
      Contents(pre.disk, pre.remote) \subseteq Contents(disk, remote)

\* C8: after a crash inside save_state the state file loads as the state the
\* previous save wrote or as the state being saved.
C8_AtomicSave ==
    outcome = "crash" =>
      \/ load_state(stateFile) =
           [local_files |-> local_files, remote_files |-> remote_files]
      \/ load_state(stateFile) =
           (IF afterRemote.saved
            THEN [local_files |-> afterRemote.local_files,
                  remote_files |-> afterRemote.remote_files]
            ELSE Loaded)

\* C9: when a listing request has failed, nothing has been downloaded, no
\* directory made, no local file deleted and neither map changed.
C9_ListingFailFast ==
    outcome = "ListingError" =>
      /\ downloaded = {}
      /\ madeDirs = {}
      /\ deletedLocal = {}
      /\ local_files = Loaded.local_files
      /\ remote_files = Loaded.remote_files

\* the state file the last completed save_state of this run or of an earlier run wrote
LastSaved ==
    IF afterRemote.saved
    THEN save_state(afterRemote.local_files, afterRemote.remote_files)
    ELSE pre.stateFile

\* C10: the step in which download_remote or upload fails changes neither map and
\* ends the run; from then on the state file holds what the last completed
\* save_state wrote, the state after the remote pass when the upload failed.
C10_TransferFailure ==
    /\ [][ (outcome = "running" /\ outcome' \in {"DownloadError", "UploadError"}) =>
             /\ local_files' = local_files
             /\ remote_files' = remote_files
             /\ pc' = "idle"
             /\ (outcome' = "UploadError") = afterRemote.saved ]_vars
    /\ [](outcome \in {"DownloadError", "UploadError"} => stateFile = LastSaved)

C10_Witness ==
    /\ outcome = "UploadError"
    /\ afterRemote.saved
    /\ stateFile # pre.stateFile
    /\ downloaded # {}


\* C11: a delete that fails although the object is there ends the run with the
\* error: while the run goes on after delete_local(p), no file is at p on local
\* disk.
C11_DeleteErrorsPropagate ==
    \A p \in deletedLocal :
      pc \in {"sweep", "walk"} => ~ isfile(disk, p)

\* C14: a file that is on the remote store with revision r and neither on local
\* disk nor in the loaded state when a run starts is, when the run has completed
\* without error, a file on local disk and recorded with rev r in both maps.
C14_RemoteOnlyFile ==
    Completed =>
      \A p \in Paths :
        ( /\ pre.remote[join_root(p)].kind = "file"
          /\ ~ exists(pre.disk, p)
          /\ p \notin DOMAIN Loaded.local_files
          /\ p \notin DOMAIN Loaded.remote_files ) =>
            /\ isfile(disk, p)
            /\ p \in DOMAIN local_files
            /\ p \in DOMAIN remote_files
            /\ local_files[p].rev = pre.remote[join_root(p)].rev
            /\ remote_files[p].rev = pre.remote[join_root(p)].rev

\* C18: the two maps hold the same paths with equal records in every state, and
\* no run ends with the KeyError of check_state, delete_local or delete_remote.
C18_MapsAgree ==
    /\ DOMAIN local_files = DOMAIN remote_files
    /\ \A p \in DOMAIN local_files : local_files[p] = remote_files[p]
    /\ outcome # "Error"

C18_Witness ==
    /\ Completed
    /\ uploaded # {}
    /\ deletedRemote # {}
    /\ deletedLocal # {}
    /\ local_files # EmptyMap

\* C19: check_local calls delete_remote only for a path at which no file is on
\* local disk during the local pass.
C19_NoRemoteDeleteOfLocalFile ==
    \A p \in deletedRemote :
      (pc = "old" \/ Completed) => ~ isfile(disk, p)

\* C20: delete_remote addresses the object upload commits to and download_remote
\* reads from: once delete_remote(p) has been called in a run, the remote store
\* holds no file at the rooted form of p.
C20_SameRemoteAddress ==
    \A p \in deletedRemote :
      (pc = "old" \/ Completed) => remote[join_root(p)].kind # "file"

\* ---------------------------------------------------------------------------
\* the bytes the remote store holds once the requests have been served are the
\* data of the requests, one after the other; it serves a request of a session
\* only at the offset it has received so far
RECURSIVE SumLen(_, _)
SumLen(calls, n) == IF n = 0 THEN 0 ELSE SumLen(calls, n - 1) + len(calls[n].data)

InOrderNoGap(calls, size) ==
    /\ calls # << >>
    /\ calls[1].data.from = 0
    /\ \A i \in 2 .. Len(calls) : calls[i].data.from = calls[i - 1].data.to
    /\ calls[Len(calls)].data.to = size
    /\ \A i \in 2 .. Len(calls) :
         calls[i].cursor = UploadSessionCursor(result_session_id, SumLen(calls, i - 1))

\* C15: when upload has returned, the store holds the content of the local
\* file under the rev both maps record, and the data of the requests, in the
\* order sent, are the bytes of the local file from the first to the last with
\* no gap and no repetition; a file at or below the threshold went in a single
\* files_upload, a larger one in a session that starts and ends with finish.
C15_UploadIntegrity ==
    up.pc = "done" =>
      /\ InOrderNoGap(up.calls, up.size)
      /\ remote[join_root(up.path)].kind = "file"
      /\ remote[join_root(up.path)].content = disk[up.path].content
      /\ up.path \in DOMAIN local_files
      /\ local_files[up.path] = remote_files[up.path]
      /\ local_files[up.path].rev = remote[join_root(up.path)].rev
      /\ up.size <= THRESHOLD =>
           /\ Len(up.calls) = 1
           /\ up.calls[1].op = "files_upload"
      /\ up.size > THRESHOLD =>
           /\ up.calls[1].op = "files_upload_session_start"
           /\ up.calls[Len(up.calls)].op = "files_upload_session_finish"

C15_Witness ==
    /\ up.pc = "done"
    /\ up.size = THRESHOLD + 1
    /\ Len(up.calls) > 2

\* C16: in a session the first request, and only the first, is a start; every
\* later one is an append or the finish and carries the session id start
\* returned and an offset equal to the bytes sent before it, which is one full
\* chunk more per request; the finish is the last request and upload returns
\* only after it; every request but the finish carries a full chunk.
C16_SessionProtocol ==
    up.size > THRESHOLD =>
      /\ \A i \in 1 .. Len(up.calls) :
           LET c == up.calls[i] IN
           /\ (i = 1) <=> (c.op = "files_upload_session_start")
           /\ i > 1 =>
                /\ c.op \in {"files_upload_session_append_v2", "files_upload_session_finish"}
                /\ c.cursor = UploadSessionCursor(result_session_id, SumLen(up.calls, i - 1))
                /\ c.cursor[2] = (i - 1) * CHUNK
           /\ c.op = "files_upload_session_finish" => i = Len(up.calls) /\ up.pc = "done"
           /\ c.op # "files_upload_session_finish" => len(c.data) = CHUNK
           /\ len(c.data) <= CHUNK
      /\ up.pc = "done" =>
           /\ Len(up.calls) >= 2
           /\ up.calls[Len(up.calls)].op = "files_upload_session_finish"

C16_Witness ==
    /\ up.pc = "done"
    /\ up.size = THRESHOLD + CHUNK
    /\ up.calls[Len(up.calls)].op = "files_upload_session_finish"
    /\ len(up.calls[Len(up.calls)].data) = 0
    /\ \E i \in 1 .. Len(up.calls) : up.calls[i].op = "files_upload_session_append_v2"

\* ---------------------------------------------------------------------------
\* the remote pass has gone past its listing loop in the run that is running
\* or has ended last
PastListing ==
    \/ pc \in {"sweep", "walk", "check", "old"}
    \/ Completed
    \/ deletedLocal # {}

\* no entry has been taken twice, and past the loop every entry of the listing
\* has been taken and the server has nothing left to return
EveryEntryOnce ==
    /\ \A e \in DOMAIN processed : processed[e] = 1
    /\ DOMAIN processed \subseteq ListingOf(pre.remote)
    /\ PastListing =>
         /\ DOMAIN processed = ListingOf(pre.remote)
         /\ pending = {} /\ entries = {} /\ ~ has_more

\* what the sweep has deleted had a record in both maps when the run started
\* and was a file in no entry of the listing
SweepOnlyUnlisted ==
    \A p \in deletedLocal :
      /\ p \in DOMAIN Loaded.remote_files
      /\ p \in DOMAIN Loaded.local_files
      /\ \A e \in DOMAIN processed : ~ (e.tag = "file" /\ strip_root(e.path_display) = p)
      /\ pre.remote[join_root(p)].kind # "file"

\* C17: the listing loop takes every entry of every page exactly once and
\* ends; delete_local is called only after the last page has been processed,
\* and only for a path that had a record in both maps and that no page showed
\* as a file.
C17_EnumerationBeforeSweep ==
    /\ [](EveryEntryOnce /\ SweepOnlyUnlisted)
    /\ (pc = "entries" ~> pc # "entries")

C17_Witness ==
    /\ deletedLocal # {}
    /\ pages >= 2
    /\ \E e \in DOMAIN processed : e.tag = "file"

\* ---------------------------------------------------------------------------
\* the remote pass of the run has ended
AfterRemotePass == pc \in {"sweep", "walk", "check", "old"} \/ Completed

\* C12: after the remote pass, a path where the listing had a folder and the
\* local disk had a regular file is a local directory and has no record in
\* local_files.
C12_FolderReplacesFile ==
    AfterRemotePass =>
      \A p \in DOMAIN disk :
        ( /\ pre.remote[join_root(p)].kind = "folder"
          /\ isfile(pre.disk, p) ) =>
            /\ isdir(disk, p)
            /\ p \notin DOMAIN local_files

\* a path the filters are said to exclude: by the name of the file, by a
\* hidden directory on the way, by the first directory on the way
Excluded(p) ==
    LET name == split_tail(p)
        dirs == IF split_head(p) = << >> THEN << >> ELSE str_split(split_head(p))
    IN  \/ startswith(name, << "." >>)
        \/ startswith(name, << "@" >>)
        \/ endswith(name, << "~" >>)
        \/ endswith(name, << ".", "p", "y", "c" >>)
        \/ endswith(name, << ".", "p", "y", "o" >>)
        \/ name = STATE_FILE
        \/ \E n \in 1 .. Len(dirs) : startswith(dirs[n], << "." >>)
        \/ /\ Len(dirs) >= 1
           /\ \/ dirs[1] = << "t", "e", "m", "p" >>
              \/ startswith(dirs[1], << "s", "i", "t", "e" >>)

\* C13: a path the filters exclude is never in check_local's filelist, so it
\* is never passed to check_state, and it is never uploaded, whatever the tree
\* and whatever the file's modification time.
C13_ExclusionFilters ==
    \A p \in DOMAIN disk :
      Excluded(p) => /\ p \notin filelist
                     /\ p \notin todo
                     /\ p \notin uploaded

C13_Witness ==
    /\ Completed
    /\ uploaded # {}
    /\ \E p \in DOMAIN disk :
         /\ Excluded(p)
         /\ isfile(disk, p)
         /\ disk[p].mtime > 1
         /\ p \notin DOMAIN local_files

====
